---- MODULE Spec2Model ----
(***************************************************************************)
(* Model of src/ODAS_ControlPanel.jsx: the threshold evaluator             *)
(* orchestrateControl, the metric sampler and the periodic execution loop  *)
(* of the ODAS Control Panel component, and the snapshot handler of the    *)
(* Global Control Panel that reads the collection the loop writes.         *)
(*                                                                         *)
(* Numbers are IEEE 754 binary64 values, as JavaScript's: a nonzero double *)
(* is a record [neg, exp, hi, lo] that stands for                          *)
(*     (-1)^neg * (hi * 2^27 + lo) * 2^exp                                 *)
(* with the significand hi * 2^27 + lo in [2^52, 2^53); zero is the record *)
(* with hi = lo = 0. Every operation rounds to nearest, ties to even. The  *)
(* values the program computes stay far from overflow and from subnormal   *)
(* numbers, so the exponent is not limited here.                           *)
(* A value of Math.random() is a number j in 0..99 standing for the double *)
(* nearest to j/100. A uid is a positive number, and the id addDoc         *)
(* generates for a document is the pair <<scan, record>> of the call; the  *)
(* order of the generated ids is kept apart, in idOrder.                   *)
(***************************************************************************)
EXTENDS Integers, Sequences, FiniteSets

VARIABLES
    phase,          \* lifecycle of the App component
    userId,         \* useFirebase state userId; it fixes interventionCollectionRef
    isAuthReady,    \* useFirebase state isAuthReady
    isSimulating,   \* App state isSimulating
    interval,       \* the timer of the execution loop effect
    listener,       \* the onSnapshot listener of the subscription effect
    pathData,       \* App state pathData (the current snapshot)
    odasStatus,     \* App state odasStatus
    scans,          \* the invocations of runOdasScan, in the order they started
    log,            \* the documents of every odas_interventions collection, in commit order
    idOrder,        \* for each uid, the ids of the documents of its collection, in id order
    stoppedAt,      \* history: the length of log when the component unmounted, -1 before
    gcpUserId,          \* Global Control Panel: useFirebase state userId
    gcpIsAuthReady,     \* Global Control Panel: useFirebase state isAuthReady
    gcpInterventions,   \* Global Control Panel: App state interventions
    strategicMetrics    \* Global Control Panel: App state strategicMetrics

vars == <<phase, userId, isAuthReady, isSimulating, interval, listener, pathData,
          odasStatus, scans, log, idOrder, stoppedAt, gcpUserId, gcpIsAuthReady,
          gcpInterventions, strategicMetrics>>

\* the variables of the ODAS Control Panel and of the store
panelVars == <<phase, userId, isAuthReady, isSimulating, interval, listener,
               pathData, odasStatus, scans, log, idOrder, stoppedAt>>

\* the variables of the Global Control Panel
gcpVars == <<gcpUserId, gcpIsAuthReady, gcpInterventions, strategicMetrics>>

-----------------------------------------------------------------------------
(* Bounds of the model *)

\* the number of times the interval timer may fire in a run from construction
MaxTicks == 3

\* the number of values of Math.random() the model draws
DrawLevels == 2

\* the number of uids the auth callbacks may deliver
MaxUsers == 3

\* the number of places, among the ids of its collection, where the id that
\* addDoc generates for a document may fall
IdPlaces == 2

\* the ticks of a run that is taken up at the last tick of a run from
\* construction and followed one tick further
LoopTicks == MaxTicks + 1

-----------------------------------------------------------------------------
(* Natural numbers of any size: little-endian sequences of limbs below 2^13, *)
(* without leading zero limbs                                               *)

Base == 2 ^ 13

Limb(a, i) == IF i <= Len(a) THEN a[i] ELSE 0

Rest(a) == IF a = <<>> THEN a ELSE Tail(a)

RECURSIVE BTrim(_)
BTrim(a) ==
    IF a = <<>> THEN a
    ELSE IF a[Len(a)] = 0 THEN BTrim(SubSeq(a, 1, Len(a) - 1)) ELSE a

RECURSIVE BFromInt(_)
BFromInt(n) == IF n = 0 THEN <<>> ELSE <<n % Base>> \o BFromInt(n \div Base)

RECURSIVE BToInt(_)
BToInt(a) == IF a = <<>> THEN 0 ELSE a[1] + Base * BToInt(Tail(a))

RECURSIVE BAddC(_, _, _)
BAddC(a, b, c) ==
    IF a = <<>> /\ b = <<>> THEN (IF c = 0 THEN <<>> ELSE <<c>>)
    ELSE LET s == Limb(a, 1) + Limb(b, 1) + c
         IN  <<s % Base>> \o BAddC(Rest(a), Rest(b), s \div Base)

BAdd(a, b) == BAddC(a, b, 0)

\* a - b for a >= b
RECURSIVE BSubC(_, _, _)
BSubC(a, b, c) ==
    IF a = <<>> THEN <<>>
    ELSE LET d == a[1] - Limb(b, 1) - c
         IN  <<(d + Base) % Base>> \o BSubC(Tail(a), Rest(b), IF d < 0 THEN 1 ELSE 0)

BSub(a, b) == BTrim(BSubC(a, b, 0))

RECURSIVE BCmpFrom(_, _, _)
BCmpFrom(a, b, i) ==
    IF i = 0 THEN 0
    ELSE IF a[i] < b[i] THEN -1
    ELSE IF a[i] > b[i] THEN 1
    ELSE BCmpFrom(a, b, i - 1)

\* -1, 0 or 1 as a is below, equal to or above b
BCmp(a, b) ==
    IF Len(a) < Len(b) THEN -1
    ELSE IF Len(a) > Len(b) THEN 1
    ELSE BCmpFrom(a, b, Len(a))

\* a * k + c for a small k
RECURSIVE BMulSmallC(_, _, _)
BMulSmallC(a, k, c) ==
    IF a = <<>> THEN BFromInt(c)
    ELSE LET p == a[1] * k + c
         IN  <<p % Base>> \o BMulSmallC(Tail(a), k, p \div Base)

BMulSmall(a, k) == BTrim(BMulSmallC(a, k, 0))

RECURSIVE BMulR(_, _)
BMulR(a, b) ==
    IF a = <<>> THEN <<>>
    ELSE BAdd(BMulSmallC(b, a[1], 0), <<0>> \o BMulR(Tail(a), b))

BMul(a, b) == BTrim(BMulR(a, b))

\* a * 2^k
BShl(a, k) ==
    IF a = <<>> THEN a
    ELSE [i \in 1..(k \div 13) |-> 0] \o BMulSmall(a, 2 ^ (k % 13))

\* b \div 2^s for s < 13
BShrBits(b, s) ==
    BTrim([i \in 1..Len(b) |->
              (b[i] \div 2 ^ s) + (Limb(b, i + 1) % 2 ^ s) * 2 ^ (13 - s)])

\* a \div 2^k
BShr(a, k) ==
    BShrBits(IF k \div 13 >= Len(a) THEN <<>> ELSE SubSeq(a, k \div 13 + 1, Len(a)),
             k % 13)

\* a % 2^k
BLow(a, k) ==
    IF k \div 13 >= Len(a) THEN a
    ELSE BTrim(SubSeq(a, 1, k \div 13) \o <<a[k \div 13 + 1] % 2 ^ (k % 13)>>)

RECURSIVE IntBitLen(_)
IntBitLen(n) == IF n = 0 THEN 0 ELSE 1 + IntBitLen(n \div 2)

BBitLen(a) == IF a = <<>> THEN 0 ELSE 13 * (Len(a) - 1) + IntBitLen(a[Len(a)])

\* quotient and remainder of a by a small d
RECURSIVE BDivSmall(_, _)
BDivSmall(a, d) ==
    IF a = <<>> THEN [q |-> <<>>, r |-> 0]
    ELSE LET up == BDivSmall(Tail(a), d)
             cur == up.r * Base + a[1]
         IN  [q |-> <<cur \div d>> \o up.q, r |-> cur % d]

-----------------------------------------------------------------------------
(* The Number type: IEEE 754 binary64 *)

Zero == [neg |-> FALSE, exp |-> 0, hi |-> 0, lo |-> 0]

IsZero(x) == x.hi = 0 /\ x.lo = 0

Significand(x) == BAdd(BShl(BFromInt(x.hi), 27), BFromInt(x.lo))

\* the double of sign neg, 53-bit significand n and exponent e
Pack(neg, n, e) ==
    [neg |-> neg, exp |-> e, hi |-> BToInt(BShr(n, 27)), lo |-> BToInt(BLow(n, 27))]

\* the double of significand m * 2^e, where m has 53 or 54 bits, and 54 only
\* as 2^53
Normal(neg, m, e, over) == Pack(neg, BShr(m, over), e + over)

\* q * 2^e rounded up by one unit in the last place when the part cut off, c
\* against the half unit, asks for it
RoundUp(neg, q, c, e, sticky) ==
    IF c > 0 \/ (c = 0 /\ (sticky \/ q[1] % 2 = 1))
    THEN Normal(neg, BAdd(q, <<1>>), e, IF BBitLen(BAdd(q, <<1>>)) > 53 THEN 1 ELSE 0)
    ELSE Pack(neg, q, e)

\* Round for a nonzero big, k being the number of bits of big beyond 53
RoundAt(neg, big, e, sticky, k) ==
    IF k > 0
    THEN RoundUp(neg, BShr(big, k), BCmp(BLow(big, k), BShl(<<1>>, k - 1)), e + k, sticky)
    ELSE Pack(neg, BShl(big, -k), e + k)

\* the double nearest to big * 2^e, ties to even; sticky says that the exact
\* value lies above big * 2^e by less than 2^e
Round(neg, big, e, sticky) ==
    IF big = <<>> THEN Zero ELSE RoundAt(neg, big, e, sticky, BBitLen(big) - 53)

\* the numeric literal n/d: the double nearest to the fraction
Quotient(dv) == Round(FALSE, BTrim(dv.q), -78, dv.r # 0)

Dbl(n, d) == Quotient(BDivSmall(BShl(BFromInt(n), 78), d))

\* unary minus
FNeg(x) == IF IsZero(x) THEN x ELSE [x EXCEPT !.neg = ~x.neg]

\* x + y
\* the sum of the numbers of signs xn, yn and magnitudes a * 2^e, b * 2^e
\* c being a against b; equal magnitudes of opposite signs give +0
SignedSum(xn, a, yn, b, e, c) ==
    Round(IF xn = yn \/ c > 0 THEN xn ELSE yn,
          IF xn = yn THEN BAdd(a, b) ELSE IF c > 0 THEN BSub(a, b) ELSE BSub(b, a),
          e, FALSE)

Compared(xn, a, yn, b, e) == SignedSum(xn, a, yn, b, e, BCmp(a, b))

\* x + y for nonzero x, y, where e is the smaller of their exponents
Aligned(x, y, e) ==
    Compared(x.neg, BShl(Significand(x), x.exp - e),
             y.neg, BShl(Significand(y), y.exp - e), e)

FAdd(x, y) ==
    IF IsZero(x) THEN y
    ELSE IF IsZero(y) THEN x
    ELSE Aligned(x, y, IF x.exp < y.exp THEN x.exp ELSE y.exp)

\* x - y
FSub(x, y) == FAdd(x, FNeg(y))

\* x * y
FMul(x, y) ==
    IF IsZero(x) \/ IsZero(y) THEN Zero
    ELSE Round(x.neg # y.neg, BMul(Significand(x), Significand(y)), x.exp + y.exp, FALSE)

Sgn(x) == IF IsZero(x) THEN 0 ELSE IF x.neg THEN -1 ELSE 1

\* |x| < |y| for nonzero doubles
MagLt(x, y) ==
    \/ x.exp < y.exp
    \/ x.exp = y.exp /\ (x.hi < y.hi \/ (x.hi = y.hi /\ x.lo < y.lo))

\* x < y
FLt(x, y) ==
    IF Sgn(x) # Sgn(y) THEN Sgn(x) < Sgn(y)
    ELSE IF Sgn(x) = 0 THEN FALSE
    ELSE IF Sgn(x) = 1 THEN MagLt(x, y)
    ELSE MagLt(y, x)

\* x > y
FGt(x, y) == FLt(y, x)

\* x >= y and x <= y (no value of the model is NaN)
FGe(x, y) == ~FLt(x, y)
FLe(x, y) == ~FLt(y, x)

\* Math.min and Math.max of two numbers
MathMin(a, b) == IF FLt(b, a) THEN b ELSE a
MathMax(a, b) == IF FGt(b, a) THEN b ELSE a

\* the doubles next to a positive double x
NextUp(x) == Round(FALSE, BAdd(Significand(x), <<1>>), x.exp, FALSE)
NextDown(x) ==
    IF x.hi = 2 ^ 25 /\ x.lo = 0
    THEN [neg |-> FALSE, exp |-> x.exp - 1, hi |-> 2 ^ 26 - 1, lo |-> 2 ^ 27 - 1]
    ELSE Round(FALSE, BSub(Significand(x), <<1>>), x.exp, FALSE)

\* the integer nearest to big / 2^k, halves upwards
Nearest(big, k) ==
    IF k > 0
    THEN BToInt(BShr(big, k))
         + (IF BLow(big, k) # <<>> /\ BCmp(BLow(big, k), BShl(<<1>>, k - 1)) >= 0
            THEN 1 ELSE 0)
    ELSE BToInt(BShl(big, -k))

\* Number.prototype.toFixed(f): the exact value of x in units of 10^-f,
\* rounded to an integer, halves away from zero; digits is that integer and
\* neg says that a minus sign is printed, which toFixed does for every x < 0
ToFixed(x, f) ==
    [neg |-> x.neg /\ ~IsZero(x),
     digits |-> Nearest(BMulSmall(Significand(x), 10 ^ f), -x.exp)]

-----------------------------------------------------------------------------
(* INTERVENTION_THRESHOLDS *)

MAX_VOLATILITY == Dbl(15, 100)
MIN_LIQUIDITY == Dbl(100000, 1)
MAX_LATENCY == Dbl(150, 1)
MIN_SENTIMENT == Dbl(40, 100)
MAX_ANOMALY_SCORE == Dbl(85, 100)

(* The clamps of the sampler *)
VolatilityCap == Dbl(5, 10)
LiquidityFloor == Zero
LatencyCap == Dbl(300, 1)
SentimentCap == Dbl(1, 1)
AnomalyCap == Dbl(1, 1)

\* the literal 100 of the percentages
Hundred == Dbl(100, 1)

-----------------------------------------------------------------------------
(* The sampler *)

Fields == {"assetVolatility", "marketLiquidity", "systemLatency",
           "publicSentiment", "anomalyScore"}

\* the values of Math.random() the model draws (hundredths), spread evenly
\* from 0, the largest fall of a metric in one scan, to 0.99, its largest rise
RandomDraws == {(99 * n) \div (DrawLevels - 1) : n \in 0..(DrawLevels - 1)}

\* the five draws of one scan, in call order, each drawn on its own
DrawVectors == [1..5 -> RandomDraws]

InitialPathData ==
    [assetVolatility |-> Dbl(5, 100),
     marketLiquidity |-> Dbl(500000, 1),
     systemLatency |-> Dbl(50, 1),
     publicSentiment |-> Dbl(80, 100),
     anomalyScore |-> Dbl(30, 100)]

\* the new value of one metric: v is its current value and j the value of
\* Math.random(), in hundredths
Sample(f, v, j) ==
    LET r == Dbl(j, 100)
    IN  CASE f = "assetVolatility" ->
                MathMin(VolatilityCap, FAdd(v, FSub(FMul(r, Dbl(1, 10)), Dbl(5, 100))))
          [] f = "marketLiquidity" ->
                MathMax(LiquidityFloor, FAdd(v, FSub(FMul(r, Dbl(50000, 1)), Dbl(30000, 1))))
          [] f = "systemLatency" ->
                MathMin(LatencyCap, FAdd(v, FSub(FMul(r, Dbl(40, 1)), Dbl(20, 1))))
          [] f = "publicSentiment" ->
                MathMin(SentimentCap, FAdd(v, FSub(FMul(r, Dbl(2, 10)), Dbl(1, 10))))
          [] f = "anomalyScore" ->
                MathMin(AnomalyCap, FAdd(v, FSub(FMul(r, Dbl(3, 10)), Dbl(1, 10))))

\* the values of metric f one scan after a value of prev, and those of prev
Resampled(f, prev) == prev \cup {Sample(f, v, j) : v \in prev, j \in RandomDraws}

\* the values metric f can have after at most n scans of the initial snapshot
RECURSIVE Sampled(_, _)
Sampled(f, n) ==
    IF n = 0 THEN {InitialPathData[f]} ELSE Resampled(f, Sampled(f, n - 1))

\* the value of table at key where the table has the key, and otherwise value
Lookup(table, key, value) == IF key \in DOMAIN table THEN table[key] ELSE value

\* Sample on the values the timer's scans meet, computed once
SampleTable ==
    [f \in Fields |->
        [vj \in {<<v, j>> : v \in Sampled(f, LoopTicks - 1), j \in RandomDraws} |->
            Sample(f, vj[1], vj[2])]]

\* Sample, read off the table where the table has the value
Sampler(f, v, j) == Lookup(SampleTable[f], <<v, j>>, Sample(f, v, j))

\* the place of each metric's Math.random() among the five calls of one scan
CallOrder ==
    [assetVolatility |-> 1, marketLiquidity |-> 2, systemLatency |-> 3,
     publicSentiment |-> 4, anomalyScore |-> 5]

\* newPathData of runOdasScan; r is the five values of Math.random(), in call order
NewPathData(pd, r) == [f \in Fields |-> Sampler(f, pd[f], r[CallOrder[f]])]

-----------------------------------------------------------------------------
(* The evaluator *)

\* pathData.f compared with a number: a field the object lacks reads as
\* undefined, and every comparison of undefined with a number is false
Gt(pd, f, b) == f \in DOMAIN pd /\ FGt(pd[f], b)
Lt(pd, f, b) == f \in DOMAIN pd /\ FLt(pd[f], b)
Ge(pd, f, b) == f \in DOMAIN pd /\ FGe(pd[f], b)
Le(pd, f, b) == f \in DOMAIN pd /\ FLe(pd[f], b)

\* what a call of orchestrateControl throws: the function has no throw
\* statement, and it reads a field's toFixed only after a comparison that is
\* false for a missing field, so no call on an object throws
Thrown(pd) == "nothing"

\* (x * 100).toFixed(d) of metric f, for the values of the metric the timer's
\* scans meet, computed once
PercentTable ==
    [metric \in {"assetVolatility", "publicSentiment", "anomalyScore"} |->
        [v \in Sampled(metric, LoopTicks) |->
            ToFixed(FMul(v, Hundred), IF metric = "assetVolatility" THEN 1 ELSE 0)]]

\* (pd[f] * 100).toFixed(d), read off the table where the table has the value
Percent(pd, f, d) ==
    Lookup(PercentTable[f], pd[f], ToFixed(FMul(pd[f], Hundred), d))

\* (assetVolatility * 100).toFixed(1): tenths of a percent
VolatilityRecord(pd) ==
    [path |-> "Finansial",
     description |-> <<"Volatilitas aset Kritis",
                       Percent(pd, "assetVolatility", 1)>>,
     severity |-> "Kritis"]

\* LiquidityRecord with a severity that grows with the shortfall
LiquidityRecord_byMagnitude(pd) ==
    [path |-> "Finansial",
     description |-> <<"Likuiditas rendah", ToFixed(pd.marketLiquidity, 0)>>,
     severity |-> IF FLt(pd.marketLiquidity, Dbl(50000, 1)) THEN "Kritis" ELSE "Peringatan"]

\* marketLiquidity.toFixed(0)
LiquidityRecord(pd) ==
    [path |-> "Finansial",
     description |-> <<"Likuiditas rendah", ToFixed(pd.marketLiquidity, 0)>>,
     severity |-> "Peringatan"]

\* systemLatency.toFixed(0): whole milliseconds
LatencyRecord(pd) ==
    [path |-> "Infrastruktur",
     description |-> <<"Latency sistem Kritis", ToFixed(pd.systemLatency, 0)>>,
     severity |-> "Kritis"]

\* (publicSentiment * 100).toFixed(0): whole percents
SentimentRecord(pd) ==
    [path |-> "Persona",
     description |-> <<"Sentimen Publik Rendah",
                       Percent(pd, "publicSentiment", 0)>>,
     severity |-> "Peringatan"]

\* (anomalyScore * 100).toFixed(0): whole percents
AnomalyRecord(pd) ==
    [path |-> "Sensor",
     description |-> <<"Anomali Data Masif Terdeteksi",
                       Percent(pd, "anomalyScore", 0)>>,
     severity |-> "Kritis"]

\* orchestrateControl with non-strict comparisons
orchestrateControl_nonstrict(pd) ==
    (IF Ge(pd, "assetVolatility", MAX_VOLATILITY) THEN <<VolatilityRecord(pd)>> ELSE <<>>)
    \o (IF Le(pd, "marketLiquidity", MIN_LIQUIDITY) THEN <<LiquidityRecord(pd)>> ELSE <<>>)
    \o (IF Ge(pd, "systemLatency", MAX_LATENCY) THEN <<LatencyRecord(pd)>> ELSE <<>>)
    \o (IF Le(pd, "publicSentiment", MIN_SENTIMENT) THEN <<SentimentRecord(pd)>> ELSE <<>>)
    \o (IF Ge(pd, "anomalyScore", MAX_ANOMALY_SCORE) THEN <<AnomalyRecord(pd)>> ELSE <<>>)

\* orchestrateControl with the infrastructure check moved before the financial ones
orchestrateControl_reordered(pd) ==
    (IF Gt(pd, "systemLatency", MAX_LATENCY) THEN <<LatencyRecord(pd)>> ELSE <<>>)
    \o (IF Gt(pd, "assetVolatility", MAX_VOLATILITY) THEN <<VolatilityRecord(pd)>> ELSE <<>>)
    \o (IF Lt(pd, "marketLiquidity", MIN_LIQUIDITY) THEN <<LiquidityRecord(pd)>> ELSE <<>>)
    \o (IF Lt(pd, "publicSentiment", MIN_SENTIMENT) THEN <<SentimentRecord(pd)>> ELSE <<>>)
    \o (IF Gt(pd, "anomalyScore", MAX_ANOMALY_SCORE) THEN <<AnomalyRecord(pd)>> ELSE <<>>)

orchestrateControl(pd) ==
    (IF Gt(pd, "assetVolatility", MAX_VOLATILITY) THEN <<VolatilityRecord(pd)>> ELSE <<>>)
    \o (IF Lt(pd, "marketLiquidity", MIN_LIQUIDITY) THEN <<LiquidityRecord(pd)>> ELSE <<>>)
    \o (IF Gt(pd, "systemLatency", MAX_LATENCY) THEN <<LatencyRecord(pd)>> ELSE <<>>)
    \o (IF Lt(pd, "publicSentiment", MIN_SENTIMENT) THEN <<SentimentRecord(pd)>> ELSE <<>>)
    \o (IF Gt(pd, "anomalyScore", MAX_ANOMALY_SCORE) THEN <<AnomalyRecord(pd)>> ELSE <<>>)

-----------------------------------------------------------------------------
(* useFirebase *)

\* userId before the first setUserId (null)
NoUser == 0

\* the uids the auth callbacks deliver
Users == 1..MaxUsers

\* the uids with which an auth callback's setUserId changes a userId of uid:
\* a uid not seen before or one seen earlier
SignIns(uid) == Users \ {uid}

\* interventionCollectionRef is not null: db is set by the mount effect and
\* userId by the auth callback
HasRef(uid) == uid # NoUser

-----------------------------------------------------------------------------
(* Effects of the App component *)

\* the subscription effect's readiness test
SubscriptionReady(ready, ref) == ready /\ ref

\* odasStatus as a record: text is the label, n the count it embeds
Status(text, n) == [text |-> text, n |-> n]

\* the status the subscription effect sets
SubscriptionStatus(ready, ref) ==
    IF SubscriptionReady(ready, ref)
    THEN Status("ODAS Online", 0)
    ELSE Status("Memuat Database ODAS...", 0)

\* the listener the subscription effect leaves: its cleanup unsubscribes the
\* one it had, and a ready run subscribes anew
Subscription(ready, ref) ==
    IF SubscriptionReady(ready, ref) THEN "listening" ELSE "none"

\* the execution loop effect: its cleanup clears the timer it had set, and
\* the effect sets a new one when isSimulating and isAuthReady
LoopEffect_noReadyCheck(sim, ready, cur) == "active"

LoopEffect(sim, ready, cur) ==
    IF sim /\ ready THEN "active"
    ELSE IF cur = "active" THEN "cleared" ELSE cur

\* the first render's effects
Mount ==
    /\ phase = "constructed"
    /\ phase' = "mounted"
    /\ odasStatus' = SubscriptionStatus(isAuthReady, HasRef(userId))
    /\ listener' = Subscription(isAuthReady, HasRef(userId))
    /\ isSimulating' = (isSimulating \/ SubscriptionReady(isAuthReady, HasRef(userId)))
    /\ interval' = LoopEffect(isSimulating', isAuthReady, interval)
    /\ UNCHANGED <<gcpVars, userId, isAuthReady, pathData, scans, log, idOrder,
                   stoppedAt>>

\* the auth callback, run to its end with a uid other than the current one:
\* setUserId(u) and, in the same continuation, setIsAuthReady(true). The
\* collection reference is rebuilt, so the subscription effect and the
\* execution loop effect run again.
AuthUser(u) ==
    /\ phase = "mounted"
    /\ u # userId
    /\ userId' = u
    /\ isAuthReady' = TRUE
    /\ odasStatus' = SubscriptionStatus(TRUE, HasRef(u))
    /\ listener' = Subscription(TRUE, HasRef(u))
    /\ isSimulating' = (isSimulating \/ SubscriptionReady(TRUE, HasRef(u)))
    /\ interval' = LoopEffect(isSimulating', TRUE, interval)
    /\ UNCHANGED <<gcpVars, phase, pathData, scans, log, idOrder, stoppedAt>>

\* unmounting with an execution loop effect that returns no cleanup
Unmount_noCleanup ==
    /\ phase = "mounted"
    /\ phase' = "unmounted"
    /\ listener' = "none"
    /\ stoppedAt' = Len(log)
    /\ UNCHANGED <<gcpVars, userId, isAuthReady, isSimulating, interval, pathData,
                   odasStatus, scans, log, idOrder>>

\* unmounting runs the effects' cleanups: unsubscribe() and clearInterval(interval)
Unmount ==
    /\ phase = "mounted"
    /\ phase' = "unmounted"
    /\ listener' = "none"
    /\ interval' = (IF interval = "active" THEN "cleared" ELSE interval)
    /\ stoppedAt' = Len(log)
    /\ UNCHANGED <<gcpVars, userId, isAuthReady, isSimulating, pathData,
                   odasStatus, scans, log, idOrder>>

\* the error callback of the panel's onSnapshot listener; a listener that
\* has reported an error delivers nothing more
OnSnapshotError ==
    /\ listener = "listening"
    /\ listener' = "failed"
    /\ odasStatus' = Status("DB Error", 0)
    /\ UNCHANGED <<gcpVars, phase, userId, isAuthReady, isSimulating, interval,
                   pathData, scans, log, idOrder, stoppedAt>>

-----------------------------------------------------------------------------
(* runOdasScan *)

\* the records whose addDoc the for loop has called when it first suspends
IssuedAtStart_parallel(recs) == DOMAIN recs

IssuedAtStart(recs) == IF Len(recs) > 0 THEN {1} ELSE {}

\* the records whose addDoc the for loop calls when the addDoc of record k resolves
IssuedAfter(recs, k) == IF k < Len(recs) THEN {k + 1} ELSE {}

\* the status runOdasScan sets from the evaluator's result
ScanStatus(recs) ==
    IF Len(recs) > 0
    THEN Status("Intervensi N Kritis", Len(recs))
    ELSE Status("ODAS Operasional Normal", 0)

\* an invocation of runOdasScan that found recs, at its first await: issued
\* are the records addDoc has been called for, stored those whose document
\* the store holds, settled those whose promise has resolved or rejected
Invocation(recs, ref) ==
    [recs |-> recs,
     ref |-> ref,
     issued |-> IssuedAtStart(recs),
     stored |-> {},
     settled |-> {},
     pc |-> IF IssuedAtStart(recs) = {} THEN "done" ELSE "loop"]

\* an invocation of runOdasScan, up to its first await; ref is the collection
\* reference its closure holds
NewScan(npd, ref) == Invocation(orchestrateControl(npd), ref)

\* the timer fires, for at most the limit-th time: runOdasScan runs to its
\* first await, and the render that follows setPathData re-creates the timer
Tick(limit) ==
    /\ interval = "active"
    /\ Len(scans) < limit
    /\ IF ~isSimulating \/ ~HasRef(userId)
       THEN UNCHANGED vars
       ELSE \E r \in DrawVectors :
                  /\ pathData' = NewPathData(pathData, r)
                  /\ scans' = Append(scans, NewScan(pathData', userId))
                  /\ odasStatus' = ScanStatus(scans'[Len(scans')].recs)
                  /\ interval' = LoopEffect(isSimulating, isAuthReady, interval)
                  /\ UNCHANGED <<gcpVars, phase, userId, isAuthReady, isSimulating,
                                 listener, log, idOrder, stoppedAt>>

\* the document addDoc writes for record k of scan i, in the collection of
\* the scan's reference; id stands for the id addDoc generates, and the
\* server sets timestamp
Doc(i, k) ==
    [id |-> <<i, k>>,
     collection |-> scans[i].ref,
     path |-> scans[i].recs[k].path,
     description |-> scans[i].recs[k].description,
     severity |-> scans[i].recs[k].severity,
     timestamp |-> Len(log) + 1]

\* the places, among the n ids of a collection in their order, where a
\* generated id may fall: after them all, or at one of the first IdPlaces - 1
Places(n) == {p \in 1..(n + 1) : p = n + 1 \/ p < IdPlaces}

\* the sequence ids with id put at place p
Inserted(ids, id, p) == SubSeq(ids, 1, p - 1) \o <<id>> \o SubSeq(ids, p, Len(ids))

\* the store commits the document of record k of scan i, whose generated id
\* falls at place p among the ids of its collection: listeners see the
\* document from now on, while the promise of the addDoc is still pending
AddDocCommit(i, k, p) ==
    /\ k \in scans[i].issued \ (scans[i].stored \cup scans[i].settled)
    /\ p \in Places(Len(idOrder[scans[i].ref]))
    /\ log' = Append(log, Doc(i, k))
    /\ idOrder' = [idOrder EXCEPT ![scans[i].ref] = Inserted(@, <<i, k>>, p)]
    /\ scans' = [scans EXCEPT ![i].stored = @ \cup {k}]
    /\ UNCHANGED <<gcpVars, phase, userId, isAuthReady, isSimulating, interval,
                   listener, pathData, odasStatus, stoppedAt>>

\* the addDoc of record k of scan i resolves, its document being stored; the
\* loop goes on to the next record
AddDocResolve(i, k) ==
    /\ k \in scans[i].stored \ scans[i].settled
    /\ LET next == IF scans[i].pc = "loop" THEN IssuedAfter(scans[i].recs, k) ELSE {}
       IN  scans' = [scans EXCEPT ![i].settled = @ \cup {k},
                                  ![i].issued = @ \cup next,
                                  ![i].pc = IF @ = "loop" /\ next = {} THEN "done" ELSE @]
    /\ UNCHANGED <<gcpVars, phase, userId, isAuthReady, isSimulating, interval,
                   listener, pathData, odasStatus, log, idOrder, stoppedAt>>

\* a rejection whose handler deletes what the scan had written
AddDocReject_rollback(i, k) ==
    /\ k \in scans[i].issued \ (scans[i].stored \cup scans[i].settled)
    /\ scans' = [scans EXCEPT ![i].settled = @ \cup {k},
                              ![i].pc = IF @ = "loop" THEN "caught" ELSE @]
    /\ log' = LET Kept(d) == d.id[1] # i IN SelectSeq(log, Kept)
    /\ idOrder' = [u \in DOMAIN idOrder |->
                      LET Kept(id) == id[1] # i IN SelectSeq(idOrder[u], Kept)]
    /\ UNCHANGED <<gcpVars, phase, userId, isAuthReady, isSimulating, interval,
                   listener, pathData, odasStatus, stoppedAt>>

\* a rejection whose catch block also reports the failure in odasStatus
AddDocReject_statusError(i, k) ==
    /\ k \in scans[i].issued \ (scans[i].stored \cup scans[i].settled)
    /\ scans' = [scans EXCEPT ![i].settled = @ \cup {k},
                              ![i].pc = IF @ = "loop" THEN "caught" ELSE @]
    /\ odasStatus' = Status("DB Error", 0)
    /\ UNCHANGED <<gcpVars, phase, userId, isAuthReady, isSimulating, interval,
                   listener, pathData, log, idOrder, stoppedAt>>

\* the addDoc of record k of scan i rejects, nothing of it being stored; the
\* catch block ends the loop
AddDocReject(i, k) ==
    /\ k \in scans[i].issued \ (scans[i].stored \cup scans[i].settled)
    /\ scans' = [scans EXCEPT ![i].settled = @ \cup {k},
                              ![i].pc = IF @ = "loop" THEN "caught" ELSE @]
    /\ UNCHANGED <<gcpVars, phase, userId, isAuthReady, isSimulating, interval,
                   listener, pathData, odasStatus, log, idOrder, stoppedAt>>

-----------------------------------------------------------------------------
(* The Global Control Panel: its subscription to the collection of its user *)

\* the fields of strategicMetrics the snapshot handler sets; totalAssets and
\* personaRating are mock values it carries over unchanged
InitialStrategicMetrics == [totalInterventions |-> 0, systemHealth |-> "Offline"]

\* the stored document of an id
DocWithId(id) == log[CHOOSE n \in DOMAIN log : log[n].id = id]

\* snapshot.docs of the query on the collection
\* artifacts/<appId>/users/<uid>/odas_interventions, which has no orderBy:
\* the documents the store holds, in the order of their ids
SnapshotDocs(uid) == [n \in DOMAIN idOrder[uid] |-> DocWithId(idOrder[uid][n])]

\* a count that takes every fetched record, whatever its severity
CriticalCount_anySeverity(fetched) == Len(fetched)

\* fetchedInterventions.filter(i => i.severity === 'Kritis').length
CriticalCount(fetched) ==
    Cardinality({n \in DOMAIN fetched : fetched[n].severity = "Kritis"})

\* the label the handler derives from criticalCount
SystemHealth(criticalCount) ==
    IF criticalCount > 5 THEN "Kritis (High Alert)"
    ELSE IF criticalCount > 0 THEN "Peringatan"
    ELSE "Optimal"

\* the auth callback of the Global Control Panel, run to its end with a uid
\* other than the current one: setUserId(u) and, in the same continuation,
\* setIsAuthReady(true); its subscription effect moves the listener to the
\* collection of u
GcpAuthUser(u) ==
    /\ u # gcpUserId
    /\ gcpUserId' = u
    /\ gcpIsAuthReady' = TRUE
    /\ UNCHANGED <<panelVars, gcpInterventions, strategicMetrics>>

\* the onSnapshot handler runs on the current documents of the collection
\* its listener is subscribed to
GcpOnSnapshot ==
    /\ SubscriptionReady(gcpIsAuthReady, HasRef(gcpUserId))
    /\ gcpInterventions' = SnapshotDocs(gcpUserId)
    /\ strategicMetrics' = [strategicMetrics EXCEPT
                                !.totalInterventions = Len(gcpInterventions'),
                                !.systemHealth = SystemHealth(CriticalCount(gcpInterventions'))]
    /\ UNCHANGED <<panelVars, gcpUserId, gcpIsAuthReady>>

-----------------------------------------------------------------------------

\* no collection holds a document
EmptyStore == [u \in Users |-> <<>>]

Init ==
    /\ phase = "constructed"
    /\ userId = NoUser
    /\ isAuthReady = FALSE
    /\ isSimulating = FALSE
    /\ interval = "none"
    /\ listener = "none"
    /\ pathData = InitialPathData
    /\ odasStatus = Status("Initializing...", 0)
    /\ scans = <<>>
    /\ log = <<>>
    /\ idOrder = EmptyStore
    /\ stoppedAt = -1
    /\ gcpUserId = NoUser
    /\ gcpIsAuthReady = FALSE
    /\ gcpInterventions = <<>>
    /\ strategicMetrics = InitialStrategicMetrics

Next ==
    \/ Mount
    \/ \E u \in SignIns(userId) : AuthUser(u)
    \/ Unmount
    \/ OnSnapshotError
    \/ Tick(MaxTicks)
    \/ \E i \in DOMAIN scans : \E k \in DOMAIN scans[i].recs :
          \E p \in Places(Len(idOrder[scans[i].ref])) : AddDocCommit(i, k, p)
    \/ \E i \in DOMAIN scans : \E k \in DOMAIN scans[i].recs : AddDocResolve(i, k)
    \/ \E i \in DOMAIN scans : \E k \in DOMAIN scans[i].recs : AddDocReject(i, k)

Spec == Init /\ [][Next]_vars

-----------------------------------------------------------------------------
(* The evaluator on its own: lines 198-206 of runOdasScan applied to a       *)
(* snapshot drawn from values at, next to (the neighbouring double) and far  *)
(* from every threshold.                                                    *)

SnapshotInputs ==
    [assetVolatility : {Dbl(5, 100), MAX_VOLATILITY, NextUp(MAX_VOLATILITY), Dbl(5, 10)},
     marketLiquidity : {Zero, NextDown(MIN_LIQUIDITY), MIN_LIQUIDITY, Dbl(500000, 1)},
     systemLatency : {Dbl(50, 1), MAX_LATENCY, NextUp(MAX_LATENCY), Dbl(300, 1)},
     publicSentiment : {FNeg(Dbl(145, 1000)), NextDown(MIN_SENTIMENT), MIN_SENTIMENT,
                        Dbl(80, 100)},
     anomalyScore : {Dbl(30, 100), MAX_ANOMALY_SCORE, NextUp(MAX_ANOMALY_SCORE), Dbl(1, 1)}]

\* a panel that is mounted and signed in as uid 1, with its loop running on
\* the snapshot pd and odasStatus at status, the invocations of scans behind
\* it and a store of documents docs with ids in the order ids
Running(pd, status, invocations, docs, ids) ==
    /\ phase = "mounted"
    /\ userId = 1
    /\ isAuthReady = TRUE
    /\ isSimulating = TRUE
    /\ interval = "active"
    /\ listener = "listening"
    /\ pathData = pd
    /\ odasStatus = status
    /\ scans = invocations
    /\ log = docs
    /\ idOrder = ids
    /\ stoppedAt = -1
    /\ gcpUserId = NoUser
    /\ gcpIsAuthReady = FALSE
    /\ gcpInterventions = <<>>
    /\ strategicMetrics = InitialStrategicMetrics

InitEval ==
    \E pd \in SnapshotInputs :
        Running(pd, Status("ODAS Online", 0), <<>>, <<>>, EmptyStore)

Evaluate ==
    /\ scans = <<>>
    /\ scans' = <<NewScan(pathData, userId)>>
    /\ odasStatus' = ScanStatus(scans'[1].recs)
    /\ UNCHANGED <<gcpVars, phase, userId, isAuthReady, isSimulating, interval,
                   listener, pathData, log, idOrder, stoppedAt>>

NextEval == Evaluate

SpecEval == InitEval /\ [][NextEval]_vars

-----------------------------------------------------------------------------
(* The evaluator on snapshots that lack one or more of the five fields *)

\* the object pd without the fields outside S
Restrict(pd, S) == [f \in S |-> pd[f]]

MalformedInputs ==
    {Restrict(pd, S) :
        pd \in [assetVolatility : {Dbl(5, 100), Dbl(5, 10)},
                marketLiquidity : {Zero, Dbl(500000, 1)},
                systemLatency : {Dbl(50, 1), Dbl(300, 1)},
                publicSentiment : {Zero, Dbl(80, 100)},
                anomalyScore : {Dbl(30, 100), Dbl(1, 1)}],
        S \in (SUBSET Fields) \ {Fields}}

InitMalformed ==
    \E pd \in MalformedInputs :
        Running(pd, Status("ODAS Online", 0), <<>>, <<>>, EmptyStore)

SpecMalformed == InitMalformed /\ [][NextEval]_vars

-----------------------------------------------------------------------------
(* The loop taken up at the last tick of a run from construction in which    *)
(* every metric rose by the most it can at every scan: the panel is mounted, *)
(* signed in and ready, and the invocation of that tick is at its first      *)
(* await. The timer fires once more. The component cannot mount again.       *)

\* the five draws of a scan in which every metric rises by the most it can
Highest == [n \in 1..5 |-> 99]

\* pathData after n such scans
RECURSIVE RunPath(_)
RunPath(n) == IF n = 0 THEN InitialPathData ELSE NewPathData(RunPath(n - 1), Highest)

\* the invocations of the ticks of such a run, none of whose writes has been
\* stored or settled
RunScans(n, uid) == [m \in 1..n |-> NewScan(RunPath(m), uid)]

InitLoop ==
    Running(RunPath(MaxTicks), ScanStatus(orchestrateControl(RunPath(MaxTicks))),
            RunScans(MaxTicks, 1), <<>>, EmptyStore)

NextLoop ==
    \/ \E u \in SignIns(userId) : AuthUser(u)
    \/ Unmount
    \/ OnSnapshotError
    \/ Tick(LoopTicks)
    \/ \E i \in DOMAIN scans : \E k \in DOMAIN scans[i].recs :
          \E p \in Places(Len(idOrder[scans[i].ref])) : AddDocCommit(i, k, p)
    \/ \E i \in DOMAIN scans : \E k \in DOMAIN scans[i].recs : AddDocResolve(i, k)
    \/ \E i \in DOMAIN scans : \E k \in DOMAIN scans[i].recs : AddDocReject(i, k)

SpecLoop == InitLoop /\ [][NextLoop]_vars

-----------------------------------------------------------------------------
(* The same loop, watched by the Global Control Panel, whose own auth        *)
(* callback fires. The collection of uid 1 holds documents of earlier        *)
(* sessions.                                                                 *)

\* document n of an earlier session of uid 1, written by the same addDoc
PriorDoc(n, rec) ==
    [id |-> <<0, n>>,
     collection |-> 1,
     path |-> rec.path,
     description |-> rec.description,
     severity |-> rec.severity,
     timestamp |-> n]

\* nK critical documents followed by nP warning documents
PriorLog(nK, nP) ==
    [n \in 1..(nK + nP) |->
        IF n <= nK
        THEN PriorDoc(n, AnomalyRecord([anomalyScore |-> Dbl(9, 10)]))
        ELSE PriorDoc(n, SentimentRecord([publicSentiment |-> Dbl(285, 1000)]))]

PriorLogs == {PriorLog(0, 1), PriorLog(5, 1)}

\* the ids of the documents of docs, which are of uid 1, in an order of the
\* ids that is not the order in which the documents were written
PriorOrder(docs) ==
    [u \in Users |->
        IF u = 1 THEN [n \in DOMAIN docs |-> docs[Len(docs) + 1 - n].id] ELSE <<>>]

InitGCP ==
    \E docs \in PriorLogs :
        Running(RunPath(MaxTicks - 1),
                ScanStatus(orchestrateControl(RunPath(MaxTicks - 1))),
                RunScans(MaxTicks - 1, 1), docs, PriorOrder(docs))

NextGCP ==
    \/ \E u \in SignIns(userId) : AuthUser(u)
    \/ Unmount
    \/ OnSnapshotError
    \/ Tick(MaxTicks)
    \/ \E i \in DOMAIN scans : \E k \in DOMAIN scans[i].recs :
          \E p \in Places(Len(idOrder[scans[i].ref])) : AddDocCommit(i, k, p)
    \/ \E i \in DOMAIN scans : \E k \in DOMAIN scans[i].recs : AddDocResolve(i, k)
    \/ \E i \in DOMAIN scans : \E k \in DOMAIN scans[i].recs : AddDocReject(i, k)
    \/ \E u \in SignIns(gcpUserId) : GcpAuthUser(u)
    \/ GcpOnSnapshot

SpecGCP == InitGCP /\ [][NextGCP]_vars

-----------------------------------------------------------------------------
(* Definitions the properties share *)

\* the state of the evaluation loop, read off its timer
LoopState ==
    CASE interval = "none" -> "Idle"
      [] interval = "active" -> "Running"
      [] interval = "cleared" -> "Stopped"

\* the result of the latest call of orchestrateControl
LastRecs == scans[Len(scans)].recs

B2N(b) == IF b THEN 1 ELSE 0

\* the five documented bounds: 0.15, 100000, 150, 0.40, 0.85
DocumentedBound ==
    <<Dbl(15, 100), Dbl(100000, 1), Dbl(150, 1), Dbl(40, 100), Dbl(85, 100)>>

\* for each metric, whether a snapshot strictly violates its documented bound
Violated(pd) ==
    <<FGt(pd.assetVolatility, DocumentedBound[1]),
      FLt(pd.marketLiquidity, DocumentedBound[2]),
      FGt(pd.systemLatency, DocumentedBound[3]),
      FLt(pd.publicSentiment, DocumentedBound[4]),
      FGt(pd.anomalyScore, DocumentedBound[5])>>

\* how many of the five documented bounds a snapshot strictly violates
ViolationCount(pd) ==
    B2N(Violated(pd)[1]) + B2N(Violated(pd)[2]) + B2N(Violated(pd)[3])
    + B2N(Violated(pd)[4]) + B2N(Violated(pd)[5])

\* the documented upper ends of the ranges: 0.5, 300, 1.0, 1.0 (liquidity has none)
DocumentedMax ==
    [assetVolatility |-> Dbl(5, 10), systemLatency |-> Dbl(300, 1),
     publicSentiment |-> Dbl(1, 1), anomalyScore |-> Dbl(1, 1)]

\* the metric a record reports, read off its description: 1 volatility,
\* 2 liquidity, 3 latency, 4 sentiment, 5 anomaly
MetricOf(rec) ==
    CASE rec.description[1] = "Volatilitas aset Kritis" -> 1
      [] rec.description[1] = "Likuiditas rendah" -> 2
      [] rec.description[1] = "Latency sistem Kritis" -> 3
      [] rec.description[1] = "Sentimen Publik Rendah" -> 4
      [] rec.description[1] = "Anomali Data Masif Terdeteksi" -> 5

FixedPaths == <<"Finansial", "Finansial", "Infrastruktur", "Persona", "Sensor">>
FixedSeverities == <<"Kritis", "Peringatan", "Kritis", "Peringatan", "Kritis">>

-----------------------------------------------------------------------------
(* C1: the evaluator returns exactly one record per strictly violated bound: *)
(* the length of its result is the number of violated bounds, each violated  *)
(* bound has its record, and a value equal to its bound has none.            *)
C1_OneRecordPerViolation ==
    scans # <<>> =>
        /\ Len(LastRecs) = ViolationCount(pathData)
        /\ \A m \in 1..5 :
              Violated(pathData)[m] = (\E k \in DOMAIN LastRecs : MetricOf(LastRecs[k]) = m)

\* a snapshot with latency, liquidity and anomaly exactly at their bounds and
\* volatility and sentiment one double beyond theirs
C1_Witness ==
    /\ scans # <<>>
    /\ pathData.systemLatency = DocumentedBound[3]
    /\ pathData.assetVolatility = NextUp(DocumentedBound[1])
    /\ pathData.publicSentiment = NextDown(DocumentedBound[4])
    /\ pathData.marketLiquidity = DocumentedBound[2]
    /\ pathData.anomalyScore = DocumentedBound[5]
    /\ Len(LastRecs) = 2

(* C2: after any number of sampling steps every metric is inside its         *)
(* documented range; in particular no metric is negative.                    *)
C2_MetricsInRange ==
    /\ \A f \in DOMAIN pathData : FGe(pathData[f], Zero)
    /\ \A f \in DOMAIN pathData \cap DOMAIN DocumentedMax :
          FLe(pathData[f], DocumentedMax[f])

(* C9: the records of a result are in the fixed order volatility, liquidity, *)
(* latency, sentiment, anomaly, each under its path; a snapshot violating    *)
(* all five bounds gives exactly the five-element sequence.                  *)
C9_FixedOrder ==
    scans # <<>> =>
        /\ \A a, b \in DOMAIN LastRecs :
              a < b => MetricOf(LastRecs[a]) < MetricOf(LastRecs[b])
        /\ \A k \in DOMAIN LastRecs : LastRecs[k].path = FixedPaths[MetricOf(LastRecs[k])]
        /\ ViolationCount(pathData) = 5 =>
              /\ [k \in DOMAIN LastRecs |-> MetricOf(LastRecs[k])] = <<1, 2, 3, 4, 5>>
              /\ [k \in DOMAIN LastRecs |-> LastRecs[k].path] = FixedPaths

C9_Witness ==
    /\ scans # <<>>
    /\ ViolationCount(pathData) = 5
    /\ Len(LastRecs) = 5

(* C10: the severity of a record is fixed by its metric, whatever the value: *)
(* Kritis for volatility, latency and anomaly, Peringatan for liquidity and  *)
(* sentiment.                                                                *)
C10_SeverityFixedPerMetric ==
    scans # <<>> =>
        \A k \in DOMAIN LastRecs : LastRecs[k].severity = FixedSeverities[MetricOf(LastRecs[k])]

\* the mildest critical violation next to the most extreme warning violations
C10_Witness ==
    /\ scans # <<>>
    /\ pathData.assetVolatility = NextUp(DocumentedBound[1])
    /\ pathData.marketLiquidity = Zero
    /\ pathData.publicSentiment.neg
    /\ \E k \in DOMAIN LastRecs : MetricOf(LastRecs[k]) = 1 /\ LastRecs[k].severity = "Kritis"
    /\ \E k \in DOMAIN LastRecs : MetricOf(LastRecs[k]) = 2 /\ LastRecs[k].severity = "Peringatan"
    /\ \E k \in DOMAIN LastRecs : MetricOf(LastRecs[k]) = 4 /\ LastRecs[k].severity = "Peringatan"

-----------------------------------------------------------------------------
(* The execution loop *)

\* the records of scan i whose addDoc is in flight: called, and its promise
\* neither resolved nor rejected
Outstanding(i) == scans[i].issued \ scans[i].settled

\* the scans with an addDoc in flight
InFlight == {i \in DOMAIN scans : Outstanding(i) # {}}

\* the readiness signal: auth is ready and the collection reference exists
Ready == isAuthReady /\ HasRef(userId)

\* the documents of the log that scan i wrote, in log order
DocsOf(i) ==
    LET IsOf(d) == d.id[1] = i
    IN  SelectSeq(log, IsOf)

\* the store holds the document of record k of scan i
Written(i, k) == \E n \in DOMAIN log : log[n].id = <<i, k>>

\* the store took the document of record k of scan i after the loop was stopped
WrittenAfterStop(i, k) ==
    \E n \in DOMAIN log : log[n].id = <<i, k>> /\ stoppedAt >= 0 /\ n > stoppedAt

(* C3: every record a tick produces is submitted to the sink, each as an     *)
(* independent write: when an invocation of runOdasScan has ended, addDoc    *)
(* has been called for every record of its result, also after a failure.     *)
C3_EveryRecordSubmitted ==
    \A i \in DOMAIN scans :
        scans[i].pc # "loop" => scans[i].issued = DOMAIN scans[i].recs

(* C4: ticks do not overlap: at no point do two invocations of runOdasScan   *)
(* have an append in flight.                                                 *)
C4_TicksDoNotOverlap == Cardinality(InFlight) <= 1

(* C5: the loop starts Idle; while the readiness signal has not fired it     *)
(* stays Idle, no tick samples or evaluates and the log stays empty; it is   *)
(* Running only once the signal has fired; once Stopped it stays Stopped.    *)
C5_IdleUntilReady ==
    /\ LoopState = "Idle"
    /\ [][ /\ (~Ready' => LoopState' = "Idle" /\ scans' = <<>> /\ log' = <<>>
                          /\ pathData' = InitialPathData)
           /\ (LoopState' = "Running" => Ready')
           /\ (~Ready => scans' = scans /\ pathData' = pathData /\ log' = log)
           /\ (LoopState = "Stopped" => LoopState' = "Stopped") ]_vars

\* the loop went from Idle through Running, where it ticked, to Stopped
C5_Witness ==
    /\ LoopState = "Stopped"
    /\ Ready
    /\ scans # <<>>
    /\ log # <<>>

(* C6: once the loop is stopped (the cleanup has cleared the interval) no    *)
(* further tick fires; stopping leaves the invocations in flight and the log *)
(* as they are, and no later step cancels a write in flight: a record that   *)
(* addDoc was called for stays called for, a stored document stays stored,   *)
(* and when the pending write of an invocation resolves after the stop its   *)
(* loop goes on as before the stop, to the next record or to its end.        *)
C6_StopPreventsTicksOnly ==
    [][ /\ (phase = "unmounted" =>
               /\ Len(scans') = Len(scans)
               /\ pathData' = pathData
               /\ interval' # "active")
        /\ (phase = "mounted" /\ phase' = "unmounted" =>
               /\ interval' # "active"
               /\ scans' = scans
               /\ log' = log)
        /\ (phase = "unmounted" =>
               /\ SubSeq(log', 1, Len(log)) = log
               /\ \A i \in DOMAIN scans :
                     /\ scans'[i].recs = scans[i].recs
                     /\ scans[i].issued \subseteq scans'[i].issued
                     /\ scans[i].stored \subseteq scans'[i].stored
                     /\ \A k \in Outstanding(i) :
                           (k \in scans'[i].settled /\ k \in scans[i].stored
                                /\ scans[i].pc = "loop")
                           => IF k < Len(scans[i].recs)
                              THEN /\ scans'[i].pc = "loop"
                                   /\ (k + 1) \in scans'[i].issued \ scans'[i].settled
                              ELSE scans'[i].pc = "done") ]_vars

\* stopped while a tick of two records was in flight with nothing of it
\* stored: both its appends completed after the stop, the second one called
\* when the first resolved
C6_Witness ==
    /\ phase = "unmounted"
    /\ \E i \in DOMAIN scans :
          /\ Len(scans[i].recs) = 2
          /\ scans[i].pc = "done"
          /\ scans[i].settled = {1, 2}
          /\ WrittenAfterStop(i, 1)
          /\ WrittenAfterStop(i, 2)

(* C7: an append failure is not fatal: the failing step leaves the log, the  *)
(* timer and the component's state as they are, no step ever removes or      *)
(* changes a document of the log, and after a failure the loop of a mounted  *)
(* component is still Running.                                               *)
C7_FailureNotFatal ==
    [][ /\ (\A i \in DOMAIN scans :
               scans[i].pc = "loop" /\ scans'[i].pc = "caught" =>
                   /\ log' = log
                   /\ interval' = interval
                   /\ phase' = phase
                   /\ isSimulating' = isSimulating
                   /\ \A j \in DOMAIN scans : j # i => scans'[j] = scans[j])
        /\ Len(log') >= Len(log)
        /\ SubSeq(log', 1, Len(log)) = log
        /\ ((\E i \in DOMAIN scans' : scans'[i].pc = "caught") /\ phase' = "mounted"
               => LoopState' = "Running") ]_vars

\* a tick whose first record was appended and whose second append failed,
\* followed by a tick that appended after it, with the loop still Running
C7_Witness ==
    /\ LoopState = "Running"
    /\ \E i, j \in DOMAIN scans :
          /\ i < j
          /\ scans[i].pc = "caught"
          /\ 2 \in scans[i].settled
          /\ \E n, m \in DOMAIN log :
                n < m /\ log[n].id = <<i, 1>> /\ log[m].id[1] = j

(* C8: within one tick the records are appended in the evaluator's order:    *)
(* the documents a scan wrote are its first records, in order, and addDoc    *)
(* is called for a record only when the addDoc of every earlier record of    *)
(* the scan has completed: its document is stored and its promise resolved.  *)
C8_AppendsInEvaluatorOrder ==
    \A i \in DOMAIN scans :
        /\ Len(DocsOf(i)) <= Len(scans[i].recs)
        /\ \A n \in DOMAIN DocsOf(i) :
              /\ DocsOf(i)[n].id = <<i, n>>
              /\ DocsOf(i)[n].path = scans[i].recs[n].path
              /\ DocsOf(i)[n].description = scans[i].recs[n].description
              /\ DocsOf(i)[n].severity = scans[i].recs[n].severity
        /\ \A k \in DOMAIN scans[i].recs : Written(i, k) = (k \in scans[i].stored)
        /\ \A k \in scans[i].issued : \A m \in 1..(k - 1) :
              Written(i, m) /\ m \in scans[i].settled
        /\ Cardinality(Outstanding(i)) <= 1

\* two overlapping ticks of two records each: a document of the second was
\* stored between the two documents of the first, whose second write is
\* stored while its promise is still pending
C8_Witness ==
    \E i, j \in DOMAIN scans :
        /\ i # j
        /\ Len(scans[i].recs) = 2
        /\ Len(scans[j].recs) = 2
        /\ 2 \in Outstanding(i)
        /\ \E a, b, c \in DOMAIN log :
              /\ a < b /\ b < c
              /\ log[a].id = <<i, 1>>
              /\ log[b].id[1] = j
              /\ log[c].id = <<i, 2>>

(* C11: given a snapshot that lacks a required field, the evaluator signals  *)
(* a MalformedSnapshot error and the tick is skipped: it yields no record,   *)
(* no append of it is issued, and the loop keeps running.                    *)
C11_MalformedSnapshotSignalled ==
    (scans # <<>> /\ DOMAIN pathData # Fields) =>
        /\ Thrown(pathData) = "MalformedSnapshot"
        /\ LastRecs = <<>>
        /\ scans[Len(scans)].issued = {}
        /\ LoopState = "Running"

-----------------------------------------------------------------------------
(* The Global Control Panel's health label *)

\* the documents of a feed whose severity is Kritis
CriticalDocs(feed) == {n \in DOMAIN feed : feed[n].severity = "Kritis"}

\* the documents of a feed whose severity is Peringatan
WarningDocs(feed) == {n \in DOMAIN feed : feed[n].severity = "Peringatan"}

\* the labels from best to worst; Offline is the label before any feed
HealthRank(label) ==
    CASE label = "Offline" -> 0
      [] label = "Optimal" -> 1
      [] label = "Peringatan" -> 2
      [] label = "Kritis (High Alert)" -> 3

(* C12: once the panel has received a feed, its health label is a function   *)
(* of the number of Kritis documents of the feed it last received: more than *)
(* 5 gives "Kritis (High Alert)", 1 to 5 gives "Peringatan", 0 gives         *)
(* "Optimal"; documents of severity Peringatan play no part, and the total   *)
(* it shows is the number of documents of that feed.                         *)
C12_HealthFromCriticalCount ==
    strategicMetrics.systemHealth # "Offline" =>
        LET c == Cardinality(CriticalDocs(gcpInterventions))
        IN  /\ c > 5 => strategicMetrics.systemHealth = "Kritis (High Alert)"
            /\ c \in 1..5 => strategicMetrics.systemHealth = "Peringatan"
            /\ c = 0 => strategicMetrics.systemHealth = "Optimal"
            /\ strategicMetrics.totalInterventions = Len(gcpInterventions)

\* High Alert on a feed of more than 5 critical documents and a warning
\* document, the first of them, in id order, the document of a write of the
\* panel that is still pending
C12_Witness ==
    /\ strategicMetrics.systemHealth = "Kritis (High Alert)"
    /\ Cardinality(CriticalDocs(gcpInterventions)) > 5
    /\ WarningDocs(gcpInterventions) # {}
    /\ \E i \in DOMAIN scans : \E k \in Outstanding(i) :
          gcpInterventions[1].id = <<i, k>>

(* C13: the step of a tick leaves the status at "Intervensi N Kritis" with   *)
(* N the number of records the evaluator produced for that tick's snapshot  *)
(* when N >= 1, and at "ODAS Operasional Normal" when N = 0; no step of an   *)
(* append of a scan (stored, resolved or failed) changes the status, and     *)
(* what else changes it is no part of a tick: the subscription effect and    *)
(* the listener's error callback, which leave the scans and the log alone.   *)
C13_StatusFromEvaluatorAlone ==
    [][ /\ Len(scans') > Len(scans) =>
              LET n == Len(scans'[Len(scans')].recs)
              IN  /\ n = ViolationCount(pathData')
                  /\ n >= 1 => odasStatus' = Status("Intervensi N Kritis", n)
                  /\ n = 0 => odasStatus' = Status("ODAS Operasional Normal", 0)
        /\ (Len(scans') = Len(scans) /\ (scans' # scans \/ log' # log))
              => odasStatus' = odasStatus
        /\ (Len(scans') = Len(scans) /\ odasStatus' # odasStatus)
              => odasStatus'.text \in {"Memuat Database ODAS...", "ODAS Online",
                                       "DB Error"} ]_vars

\* a tick of two records whose first append failed, so that nothing of the
\* tick was written, with the status still counting two interventions
C13_Witness ==
    /\ scans # <<>>
    /\ Len(LastRecs) = 2
    /\ scans[Len(scans)].pc = "caught"
    /\ scans[Len(scans)].settled = {1}
    /\ DocsOf(Len(scans)) = <<>>
    /\ odasStatus.n = 2

(* C14: the core only appends to the log: every step leaves the documents    *)
(* already written as they are and in place, so the number of documents      *)
(* never decreases, and the total and the health label the Global Control    *)
(* Panel shows never go back: once "Kritis (High Alert)" never "Peringatan"  *)
(* or "Optimal" again, once "Peringatan" never "Optimal" again.              *)
C14_AppendOnlyHealthNeverImproves ==
    [][ /\ Len(log') >= Len(log)
        /\ SubSeq(log', 1, Len(log)) = log
        /\ strategicMetrics'.totalInterventions >= strategicMetrics.totalInterventions
        /\ HealthRank(strategicMetrics'.systemHealth)
              >= HealthRank(strategicMetrics.systemHealth) ]_vars

====
